---- MODULE Spec2Model ----
(***************************************************************************)
(* A model of book_maker: the BookMaker orchestrator (book_maker.py), the  *)
(* text extraction helpers (extract_utils.py) and the continuation merger. *)
(*                                                                         *)
(* Text is a sequence of one-character strings.  Python values that can be *)
(* of more than one type are tagged records: None, Str(s), and an          *)
(* OrderedDict as a pair of parallel sequences (keys, vals).               *)
(***************************************************************************)
EXTENDS Integers, Sequences, FiniteSets, TLC

(***************************************************************************)
(* Python values                                                           *)
(***************************************************************************)
None == [t |-> "None"]

Str(s) == [t |-> "str", v |-> s]

List(items) == [t |-> "list", v |-> items]

Dict(ks, vs) == [t |-> "dict", keys |-> ks, vals |-> vs]

IsNone(x) == x = None

IsStr(x) == x.t = "str"

IsDict(x) == x.t = "dict"

\* Python truth value of None, a str, a list or a dict.
Truthy(x) ==
    CASE x.t = "None" -> FALSE
      [] x.t = "str"  -> Len(x.v) > 0
      [] x.t = "list" -> Len(x.v) > 0
      [] x.t = "dict" -> Len(x.keys) > 0

\* The position of key k in an ordered dict, 0 when absent.
DictIndex(d, k) ==
    IF \E i \in 1..Len(d.keys) : d.keys[i] = k
    THEN CHOOSE i \in 1..Len(d.keys) : d.keys[i] = k
    ELSE 0

DictHas(d, k) == DictIndex(d, k) # 0

DictGet(d, k) == d.vals[DictIndex(d, k)]

\* d[k] = v : an existing key keeps its position, a new key goes last.
DictSet(d, k, v) ==
    IF DictHas(d, k)
    THEN Dict(d.keys, [d.vals EXCEPT ![DictIndex(d, k)] = v])
    ELSE Dict(Append(d.keys, k), Append(d.vals, v))

RECURSIVE DictFromKeys(_)
\* OrderedDict.fromkeys(keys): every distinct key once, in order, mapped to None.
DictFromKeys(ks) ==
    IF ks = <<>> THEN Dict(<<>>, <<>>)
    ELSE LET d == DictFromKeys(SubSeq(ks, 1, Len(ks) - 1))
         IN  DictSet(d, ks[Len(ks)], None)

(***************************************************************************)
(* Text primitives (str methods)                                           *)
(***************************************************************************)
NL == <<"\n">>

NLNL == <<"\n", "\n">>

Digits == {"0", "1", "2", "3", "4", "5", "6", "7", "8", "9"}

\* sep occurs in s at position i.
IsAt(s, sep, i) ==
    /\ i + Len(sep) - 1 <= Len(s)
    /\ \A k \in 1..Len(sep) : s[i + k - 1] = sep[k]

\* The first position >= i at which sep occurs in s, 0 when there is none.
Find(s, sep, i) ==
    IF \E j \in i..Len(s) : IsAt(s, sep, j)
    THEN CHOOSE j \in i..Len(s) :
            IsAt(s, sep, j) /\ \A k \in i..(j - 1) : ~IsAt(s, sep, k)
    ELSE 0

RECURSIVE SplitFrom(_, _, _)
SplitFrom(s, sep, i) ==
    LET j == Find(s, sep, i)
    IN  IF j = 0 THEN <<SubSeq(s, i, Len(s))>>
        ELSE <<SubSeq(s, i, j - 1)>> \o SplitFrom(s, sep, j + Len(sep))

\* s.split(sep) for a non-empty sep.
Split(s, sep) == SplitFrom(s, sep, 1)

RECURSIVE Join(_, _)
\* sep.join(parts)
Join(parts, sep) ==
    IF parts = <<>> THEN <<>>
    ELSE IF Len(parts) = 1 THEN parts[1]
    ELSE parts[1] \o sep \o Join(Tail(parts), sep)

\* s.startswith(prefix)
StartsWith(s, prefix) == IsAt(s, prefix, 1)

\* [x for x in xs if keep(x)]
Filter(xs, keep(_)) == SelectSeq(xs, keep)

NonEmpty(s) == s # <<>>

\* s.replace(ch, "") for a one-character ch.
RemoveChar(s, ch) == SelectSeq(s, LAMBDA c : c # ch)

\* The part of s a regular expression's (.*) captures from position i: up to
\* the end of the line.
RestOfLine(s, i) ==
    LET j == Find(s, NL, i)
    IN  IF j = 0 THEN SubSeq(s, i, Len(s)) ELSE SubSeq(s, i, j - 1)

(***************************************************************************)
(* extract_utils.py                                                        *)
(***************************************************************************)
NotSeparator(block) == block # <<"-", "-", "-">>

\* extract_central_text without its case for two paragraphs.
extract_central_text_no_pair(text, include_start, include_end) ==
    LET blocks == Filter(Split(text, NLNL), NotSeparator)
        n == Len(blocks)
    IN  IF n = 0 THEN <<>>
        ELSE IF n = 1 THEN blocks[1]
        ELSE Join(SubSeq(blocks, IF include_start THEN 1 ELSE 2,
                         IF include_end THEN n ELSE n - 1), NLNL)

extract_central_text(text, include_start, include_end) ==
    LET blocks == Filter(Split(text, NLNL), NotSeparator)
        n == Len(blocks)
    IN  IF n = 0 THEN <<>>
        ELSE IF n = 1 THEN blocks[1]
        ELSE IF n = 2
             THEN IF ~include_start THEN blocks[2] ELSE Join(blocks, NLNL)
        ELSE LET start_idx == IF include_start THEN 0 ELSE 1
                 end_idx == IF include_end THEN n ELSE n - 1
             IN  Join(SubSeq(blocks, start_idx + 1, end_idx), NLNL)

\* re.search(r"(\w*\s*)(\d+)(\.|:|\)) (.*)", line): the leftmost match ends its
\* digits at the first separator that follows a digit and precedes a space,
\* since neither \w*\s* nor \d+ can cross a separator.
NumberedAt(line, i) ==
    /\ i >= 2
    /\ i + 1 <= Len(line)
    /\ line[i] \in {".", ":", ")"}
    /\ line[i - 1] \in Digits
    /\ line[i + 1] = " "

parse_numbered_list_item_from_line(line) ==
    IF \E i \in 1..Len(line) : NumberedAt(line, i)
    THEN LET i == CHOOSE i \in 1..Len(line) :
                     NumberedAt(line, i) /\ \A k \in 1..(i - 1) : ~NumberedAt(line, k)
         IN  Str(RestOfLine(line, i + 2))
    ELSE None

\* re.search(r"(\s*)- (.*)", line): the first "- " anywhere in the line.
parse_unordered_list_item_from_line(line) ==
    LET i == Find(line, <<"-", " ">>, 1)
    IN  IF i = 0 THEN None ELSE Str(RestOfLine(line, i + 2))

RECURSIVE FirstOptionIn(_)
FirstOptionIn(lines) ==
    IF lines = <<>> THEN None
    ELSE LET line == lines[1]
         IN  IF StartsWith(line, <<"1", ".", " ">>) \/ StartsWith(line, <<"1", ")", " ">>)
             THEN Str(RestOfLine(line, 4))
             ELSE IF Find(line, <<"-", " ">>, 1) # 0
             THEN Str(RestOfLine(line, Find(line, <<"-", " ">>, 1) + 2))
             ELSE FirstOptionIn(Tail(lines))

extract_first_option(text) ==
    LET lines == Filter(Split(text, NL), NonEmpty)
    IN  IF Len(lines) = 1 THEN Str(lines[1]) ELSE FirstOptionIn(lines)

RECURSIVE NumberedItems(_)
NumberedItems(lines) ==
    IF lines = <<>> THEN <<>>
    ELSE LET item == parse_numbered_list_item_from_line(lines[1])
         IN  (IF item # None THEN <<item.v>> ELSE <<>>) \o NumberedItems(Tail(lines))

extract_list_from_numbered_list_text(text) == NumberedItems(Split(text, NL))

\* An exception leaving a function, with its Python class.
Raised(kind) == [t |-> "raise", kind |-> kind]

IsRaised(x) == x.t = "raise"

\* x if x else None, for a list of subsections.
ListOrNone(items) == IF items = <<>> THEN None ELSE List(items)

RECURSIVE UnorderedItems(_)
UnorderedItems(lines) ==
    IF lines = <<>> THEN <<>>
    ELSE <<parse_unordered_list_item_from_line(lines[1])>> \o UnorderedItems(Tail(lines))

\* The pair (section, subsections), or the IndexError of lines[0] when the
\* text has no non-empty line.
parse_one_section_to_subsections(text) ==
    LET lines == Filter(Split(text, NL), NonEmpty)
    IN  IF lines = <<>> THEN Raised("IndexError")
        ELSE LET numbered == parse_numbered_list_item_from_line(lines[1])
                 section == IF Truthy(numbered) THEN numbered ELSE Str(lines[1])
             IN  [t |-> "pair", section |-> section,
                  subsections |-> UnorderedItems(Tail(lines))]

RECURSIVE ByParagraphs(_, _)
ByParagraphs(paragraphs, section_to_subsections) ==
    IF paragraphs = <<>> THEN section_to_subsections
    ELSE LET parsed == parse_one_section_to_subsections(paragraphs[1])
         IN  IF IsRaised(parsed) THEN parsed
             ELSE ByParagraphs(Tail(paragraphs),
                      DictSet(section_to_subsections, parsed.section,
                              ListOrNone(parsed.subsections)))

extract_sections_subsections_by_paragraphs(toc_text) ==
    ByParagraphs(Filter(Split(toc_text, NLNL), NonEmpty), Dict(<<>>, <<>>))

RECURSIVE ByLine(_, _, _, _, _)
\* The loop over enumerate(lines), from index i (1-based), then the final store.
\* curr_subsections is None or a List.
ByLine(lines, i, section_to_subsections, curr_section, curr_subsections) ==
    IF i > Len(lines)
    THEN IF curr_section # None /\ ~DictHas(section_to_subsections, curr_section)
         THEN DictSet(section_to_subsections, curr_section,
                      ListOrNone(curr_subsections.v))
         ELSE section_to_subsections
    ELSE LET line == lines[i]
             section == parse_numbered_list_item_from_line(line)
             subsection == parse_unordered_list_item_from_line(line)
         IN  IF section # None
             THEN ByLine(lines, i + 1,
                         IF curr_section # None
                         THEN DictSet(section_to_subsections, curr_section,
                                      ListOrNone(curr_subsections.v))
                         ELSE section_to_subsections,
                         section, List(<<>>))
             ELSE IF subsection # None
             THEN IF curr_subsections = None
                  THEN IF i # 1 /\ NonEmpty(lines[i - 1])
                       THEN ByLine(lines, i + 1, section_to_subsections,
                                   Str(lines[i - 1]), List(<<subsection>>))
                       ELSE Raised("RuntimeError")
                  ELSE ByLine(lines, i + 1, section_to_subsections, curr_section,
                              List(Append(curr_subsections.v, subsection)))
             ELSE ByLine(lines, i + 1, section_to_subsections, curr_section,
                         curr_subsections)

\* A variant of extract_sections_subsections_by_line that returns what it has
\* collected so far, nothing, where the original raises.
extract_sections_subsections_by_line_lenient(toc_text) ==
    LET found == ByLine(Filter(Split(toc_text, NL), NonEmpty), 1, Dict(<<>>, <<>>),
                        None, None)
    IN  IF IsRaised(found) THEN Dict(<<>>, <<>>) ELSE found

extract_sections_subsections_by_line(toc_text) ==
    ByLine(Filter(Split(toc_text, NL), NonEmpty), 1, Dict(<<>>, <<>>), None, None)

\* toc_text is None or a Str; None has no split method.
extract_sections_from_toc(toc_text) ==
    IF toc_text = None THEN Raised("AttributeError")
    ELSE IF Len(Split(toc_text.v, NLNL)) > 1
         THEN extract_sections_subsections_by_paragraphs(toc_text.v)
         ELSE extract_sections_subsections_by_line(toc_text.v)

(***************************************************************************)
(* Library functions called by book_maker.py                               *)
(***************************************************************************)
Min2(x, y) == IF x <= y THEN x ELSE y

Max2(x, y) == IF x >= y THEN x ELSE y

RECURSIVE LevCells(_, _, _, _, _, _)
\* One row of the edit-distance table, for character c of a: row holds the
\* entries already computed, and those of columns lo..hi of b are added.
\* (The range is halved, and row is measured before it is used, so that the
\* evaluation stays shallow; row is never empty.)
LevCells(prev, c, b, row, lo, hi) ==
    IF lo > hi \/ Len(row) = 0 THEN row
    ELSE IF lo = hi
    THEN LET cost == IF c = b[lo] THEN 0 ELSE 1
         IN  Append(row, Min2(Min2(prev[lo + 1] + 1, row[lo] + 1), prev[lo] + cost))
    ELSE LET mid == (lo + hi) \div 2
         IN  LevCells(prev, c, b, LevCells(prev, c, b, row, lo, mid), mid + 1, hi)

RECURSIVE LevRows(_, _, _, _, _)
\* The last row of the table after the rows lo..hi of a, from row prev.
LevRows(a, b, prev, lo, hi) ==
    IF lo > hi \/ Len(prev) = 0 THEN prev
    ELSE IF lo = hi THEN LevCells(prev, a[lo], b, <<prev[1] + 1>>, 1, Len(b))
    ELSE LET mid == (lo + hi) \div 2
         IN  LevRows(a, b, LevRows(a, b, prev, lo, mid), mid + 1, hi)

\* Levenshtein.distance(a, b): insertions, deletions and substitutions cost 1.
levenshtein_distance(a, b) ==
    LevRows(a, b, [j \in 1..(Len(b) + 1) |-> j - 1], 1, Len(a))[Len(b) + 1]

\* SequenceMatcher(None, a, b) keeps the default autojunk=True: when b has 200
\* or more elements, those occurring more than len(b) // 100 + 1 times are
\* "popular" and left out of the index the matcher searches.
Popular(b) ==
    IF Len(b) >= 200
    THEN {c \in {b[j] : j \in 1..Len(b)} :
            Cardinality({j \in 1..Len(b) : b[j] = c}) > (Len(b) \div 100) + 1}
    ELSE {}

RECURSIVE RunLen(_, _, _, _, _)
\* The length of the run of equal, indexed elements ending at a[i], b[j].
RunLen(a, b, i, j, popular) ==
    IF i < 1 \/ j < 1 THEN 0
    ELSE IF a[i] # b[j] \/ b[j] \in popular THEN 0
    ELSE 1 + RunLen(a, b, i - 1, j - 1, popular)

\* The block m grown to the left while the elements before it are equal.
ExtendBack(a, b, m) ==
    LET most == Min2(m.a, m.b)
        grows(k) == \A t \in 1..k : a[m.a - t + 1] = b[m.b - t + 1]
        k == CHOOSE k \in 0..most : grows(k) /\ (k = most \/ ~grows(k + 1))
    IN  [a |-> m.a - k, b |-> m.b - k, size |-> m.size + k]

\* The block m grown to the right while the elements after it are equal.
ExtendForward(a, b, m) ==
    LET most == Min2(Len(a) - (m.a + m.size), Len(b) - (m.b + m.size))
        grows(k) == \A t \in 1..k : a[m.a + m.size + t] = b[m.b + m.size + t]
        k == CHOOSE k \in 0..most : grows(k) /\ (k = most \/ ~grows(k + 1))
    IN  [m EXCEPT !.size = m.size + k]

\* matcher.find_longest_match(0, len(a), 0, len(b)): Match(a, b, size) with
\* 0-based starts.  The search keeps the first block that reaches the
\* greatest length (rows of a in order, then columns of b), and the block is
\* then extended over equal elements on both sides.
find_longest_match(a, b) ==
    LET popular == Popular(b)
        ends == {ij \in (1..Len(a)) \X (1..Len(b)) : a[ij[1]] = b[ij[2]] /\ b[ij[2]] \notin popular}
        len(ij) == RunLen(a, b, ij[1], ij[2], popular)
        bestsize == IF ends = {} THEN 0
                    ELSE CHOOSE k \in 1..Min2(Len(a), Len(b)) :
                            /\ \E ij \in ends : len(ij) = k
                            /\ \A ij \in ends : len(ij) <= k
        best == IF bestsize = 0 THEN [a |-> 0, b |-> 0, size |-> 0]
                ELSE LET cands == {ij \in ends : len(ij) = bestsize}
                         ij == CHOOSE x \in cands : \A y \in cands :
                                  x[1] < y[1] \/ (x[1] = y[1] /\ x[2] <= y[2])
                     IN  [a |-> ij[1] - bestsize, b |-> ij[2] - bestsize, size |-> bestsize]
    IN  ExtendForward(a, b, ExtendBack(a, b, best))

\* A variant of merge_text that keeps the whole text and appends the new one.
merge_text_appended(text, new_text) == text \o new_text

\* text[:match.a] + new_text[match.b:]
merge_text(text, new_text) ==
    LET match == find_longest_match(text, new_text)
    IN  SubSeq(text, 1, match.a) \o SubSeq(new_text, match.b + 1, Len(new_text))

(***************************************************************************)
(* book_formatter.py: helper functions                                     *)
(***************************************************************************)
SECTION_TAG == <<"h", "1">>

SUBSECTION_TAG == <<"h", "2">>

CODE_TAG == <<"c", "o", "d", "e">>

PAR_TAG == <<"p">>

OpenTag(tag) == <<"<">> \o tag \o <<">">>

CloseTag(tag) == <<"<", "/">> \o tag \o <<">">>

\* str.lower() of one character.
Lower(c) ==
    LET upper == <<"A", "B", "C", "D", "E", "F", "G", "H", "I", "J", "K", "L", "M",
                   "N", "O", "P", "Q", "R", "S", "T", "U", "V", "W", "X", "Y", "Z">>
        lower == <<"a", "b", "c", "d", "e", "f", "g", "h", "i", "j", "k", "l", "m",
                   "n", "o", "p", "q", "r", "s", "t", "u", "v", "w", "x", "y", "z">>
    IN  IF \E k \in 1..26 : upper[k] = c
        THEN lower[CHOOSE k \in 1..26 : upper[k] = c]
        ELSE c

\* The characters chapter_name_to_filename removes.
RemoveChars ==
    {"!", "@", "#", "$", "%", "^", "&", "*", "(", ")", "+", "?", "=", ",", ".",
     "<", ">", "/", "\\", ":", ";", "'", "\""}

chapter_name_to_filename(chapter_name) ==
    LET lowered == [k \in 1..Len(chapter_name) |-> Lower(chapter_name[k])]
        fname == [k \in 1..Len(lowered) |->
                    IF lowered[k] = " " THEN "_" ELSE lowered[k]]
    IN  SelectSeq(fname, LAMBDA c : c \notin RemoveChars)

\* The backquote character, which a string of this module cannot hold: "~"
\* stands for it in every text.
Backquote == "~"

\* The code block identifier: three backquotes.
Fence == <<Backquote, Backquote, Backquote>>

RECURSIVE CountFrom(_, _, _)
\* len(re.findall(sep, s)): the occurrences of sep in s from position i on,
\* left to right, none overlapping another.
CountFrom(s, sep, i) ==
    LET j == Find(s, sep, i)
    IN  IF j = 0 THEN 0 ELSE 1 + CountFrom(s, sep, j + Len(sep))

\* s.replace(old, new, 1)
ReplaceFirst(s, old, new) ==
    LET j == Find(s, old, 1)
    IN  IF j = 0 THEN s
        ELSE SubSeq(s, 1, j - 1) \o new \o SubSeq(s, j + Len(old), Len(s))

RECURSIVE ReplaceFences(_, _, _)
\* The loop of replace_with_code_tag: n replacements of the first identifier
\* left, by the opening and the closing tag in turn.
ReplaceFences(text_in, n, open_flag) ==
    IF n = 0 THEN text_in
    ELSE ReplaceFences(
            ReplaceFirst(text_in, Fence,
                         IF open_flag THEN OpenTag(CODE_TAG) ELSE CloseTag(CODE_TAG)),
            n - 1, ~open_flag)

\* replace_with_code_tag without its assertion on the count.
replace_with_code_tag_unchecked(text_in) ==
    Str(ReplaceFences(text_in, CountFrom(text_in, Fence, 1), TRUE))

\* replace_with_code_tag: the text, or the AssertionError of an odd count.
replace_with_code_tag(text_in) ==
    LET num_occurrences == CountFrom(text_in, Fence, 1)
    IN  IF num_occurrences % 2 # 0 THEN Raised("AssertionError")
        ELSE Str(ReplaceFences(text_in, num_occurrences, TRUE))

\* prepend_before_char(text, to_add, "\n"): i is the index of the first
\* character that is not a newline, the last index when there is none.
prepend_before_char(text_in, to_add) ==
    LET n == Len(text_in)
        i == IF \E k \in 1..n : text_in[k] # "\n"
             THEN (CHOOSE k \in 1..n :
                      text_in[k] # "\n" /\ \A j \in 1..(k - 1) : text_in[j] = "\n") - 1
             ELSE IF n = 0 THEN 0 ELSE n - 1
    IN  SubSeq(text_in, 1, i) \o to_add \o SubSeq(text_in, i + 1, n)

\* append_before_char(text, to_add, "\n"): to_add goes after the last
\* character that is not a newline; text[i-1] runs out of the string
\* (IndexError) when there is no such character.
append_before_char(text_in, to_add) ==
    LET n == Len(text_in)
    IN  IF \A k \in 1..n : text_in[k] = "\n" THEN Raised("IndexError")
        ELSE LET i == CHOOSE k \in 1..n :
                         text_in[k] # "\n" /\ \A j \in (k + 1)..n : text_in[j] = "\n"
             IN  Str(SubSeq(text_in, 1, i) \o to_add \o SubSeq(text_in, i + 1, n))

\* One paragraph of wrap_paragraphs_in_par_tag that holds an opening code
\* tag.
wrap_code_paragraph(paragraph) ==
    LET before_par_split == SelectSeq(Split(paragraph, OpenTag(CODE_TAG)), NonEmpty)
    IN  IF Len(before_par_split) > 2 THEN Raised("RuntimeError")
        ELSE IF Len(before_par_split) = 0 THEN Raised("IndexError")
        ELSE
          LET remaining_par ==
                  OpenTag(CODE_TAG) \o before_par_split[Len(before_par_split)]
              before_code ==
                  IF Len(before_par_split) = 2
                  THEN append_before_char(
                          prepend_before_char(before_par_split[1], OpenTag(PAR_TAG)),
                          CloseTag(PAR_TAG)).v \o NL
                  ELSE <<>>
              after_par_split ==
                  SelectSeq(Split(remaining_par, CloseTag(CODE_TAG)), NonEmpty)
              code == IF Len(after_par_split) = 2
                      THEN after_par_split[1] \o CloseTag(CODE_TAG)
                      ELSE remaining_par
              after_code ==
                  IF Len(after_par_split) = 2
                  THEN append_before_char(
                          prepend_before_char(after_par_split[2],
                                              NL \o OpenTag(PAR_TAG)),
                          CloseTag(PAR_TAG)).v
                  ELSE <<>>
          IN  Str(before_code \o code \o after_code)

wrap_paragraph(paragraph) ==
    IF Find(paragraph, OpenTag(CODE_TAG), 1) # 0 THEN wrap_code_paragraph(paragraph)
    ELSE Str(OpenTag(PAR_TAG) \o paragraph \o CloseTag(PAR_TAG))

\* wrap_paragraphs_in_par_tag: the text, or the exception of the first
\* paragraph that raises.
wrap_paragraphs_in_par_tag(text_in) ==
    LET paragraphs == Split(text_in, NLNL)
        new_paragraphs == [k \in 1..Len(paragraphs) |-> wrap_paragraph(paragraphs[k])]
    IN  IF \E k \in 1..Len(paragraphs) : IsRaised(new_paragraphs[k])
        THEN new_paragraphs[CHOOSE k \in 1..Len(paragraphs) :
                /\ IsRaised(new_paragraphs[k])
                /\ \A j \in 1..(k - 1) : ~IsRaised(new_paragraphs[j])]
        ELSE Str(Join([k \in 1..Len(paragraphs) |-> new_paragraphs[k].v], NLNL))

(***************************************************************************)
(* book_maker.py: the state of one BookMaker                               *)
(***************************************************************************)
VARIABLES
    progress,   \* self.progress: the five flags
    book,       \* self._book: title, toc, sections, description, keywords
    plan,       \* the method calls still to run, in order: the position in
                \* create_book / create_sections / create_section
    text,       \* _iter_check_if_finished: the text accumulated so far
    last_text,  \* _iter_check_if_finished: last_text
    asked,      \* the prompts sent to the chatbot, and the methods entered
                \* without a prompt, during the current call of the caller
    reply,      \* what the chatbot answered to the latest prompt
    op,         \* the method the caller invoked last
    calls,      \* how many methods the caller has invoked
    file,       \* the JSON file save() wrote, None when there is none
    result,     \* what save() returned last
    escaped,    \* the exception that left the last method invoked, if any
    formatter,  \* the BookFormatter object, None before it is constructed
    call        \* a helper function applied on its own: its name, its
                \* arguments and what it returned or raised

vars == <<progress, book, plan, text, last_text, asked, reply, op, calls, file,
          result, escaped, formatter, call>>

\* The caller invokes at most MaxCalls methods on one BookMaker.
MaxCalls == 2

\* The chatbot continues a response at most MaxFollowUps times before it ends
\* it (with "Done.", a repetition, or a failure).
MaxFollowUps == 2

Step(name, section, subsection) ==
    [op |-> name, section |-> section, subsection |-> subsection]

Method(name) == Step(name, None, None)

ConnectionError == Raised("ConnectionError")

AllProgress == /\ progress.title /\ progress.toc /\ progress.sections
               /\ progress.description /\ progress.keywords

\* The chatbot's answers the model draws from, per prompt.
TitleReplies ==
    { <<"T">>,
      <<"\"", "T", "\"">>,
      <<"a", "\n", "b">> }

TocReplies ==
    { <<"i", "\n", "\n", "1", ".", " ", "A", "\n", "-", " ", "x", "\n", "\n",
        "2", ".", " ", "B", "\n", "\n", "o">>,
      <<"i", "\n", "\n", "1", ".", " ", "A", "\n", "f", "\n", "\n",
        "2", ".", " ", "B", "\n", "\n", "o">>,
      <<"1", ".", " ", "A", "\n", "-", " ">>,
      <<>> }

DescriptionReplies == { <<"\"", "d", "\"">> }

KeywordsReplies == { <<"1", ".", " ", "k", "\n", "2", ")", " ", "m">> }

SectionReplies == { <<"t">> }

DoneReply == <<"D", "o", "n", "e", ".">>

FollowUpReplies == { DoneReply, <<"t", "u">> }

(***************************************************************************)
(* BookMaker.__init__: the state after construction, with or without a     *)
(* title given by the caller.                                              *)
(***************************************************************************)
InitWith(title) ==
    /\ progress = [title |-> title # None, toc |-> FALSE, sections |-> FALSE,
                   description |-> FALSE, keywords |-> FALSE]
    /\ book = [title |-> title, toc |-> None, sections |-> None,
               description |-> None, keywords |-> None]
    /\ plan = <<>>
    /\ text = <<>>
    /\ last_text = <<>>
    /\ asked = <<>>
    /\ reply = None
    /\ op = "init"
    /\ calls = 0
    /\ file = None
    /\ result = "-"
    /\ escaped = "none"

Init ==
    /\ \E title \in {None, Str(<<"G">>)} : InitWith(title)
    /\ formatter = None
    /\ call = None

(***************************************************************************)
(* The caller: invokes a method when no method is running.                 *)
(***************************************************************************)
\* A variant of create_book_steps that asks for the description before the
\* table of contents.
create_book_steps_swapped ==
    << Method("create_title"), Method("create_description"), Method("create_toc"),
       Method("create_keywords"), Method("extract_sections_from_toc"),
       Method("create_sections") >>

create_book_steps ==
    << Method("create_title"), Method("create_toc"), Method("create_description"),
       Method("create_keywords"), Method("extract_sections_from_toc"),
       Method("create_sections") >>

Invoke(name, steps) ==
    /\ plan = <<>>
    /\ calls < MaxCalls
    /\ plan' = steps
    /\ op' = name
    /\ calls' = calls + 1
    /\ asked' = <<>>
    /\ reply' = None
    /\ escaped' = "none"
    /\ UNCHANGED <<formatter, call, progress, book, text, last_text, file, result>>

CallCreateBook == Invoke("create_book", create_book_steps)

CallMethod ==
    \E name \in {"create_title", "create_toc", "create_description",
                 "create_keywords", "extract_sections_from_toc", "create_sections"} :
        Invoke(name, <<Method(name)>>)

\* A variant of save that writes the file whatever the flags are.
save_always ==
    /\ plan = <<>>
    /\ calls < MaxCalls
    /\ op' = "save"
    /\ calls' = calls + 1
    /\ asked' = <<>>
    /\ reply' = None
    /\ escaped' = "none"
    /\ result' = "None" /\ file' = book
    /\ UNCHANGED <<formatter, call, progress, book, plan, text, last_text>>

\* save(path): False and no file unless every flag is set; else the file is
\* written and the method returns None.
save ==
    /\ plan = <<>>
    /\ calls < MaxCalls
    /\ op' = "save"
    /\ calls' = calls + 1
    /\ asked' = <<>>
    /\ reply' = None
    /\ escaped' = "none"
    /\ IF ~AllProgress
       THEN result' = "False" /\ file' = file
       ELSE result' = "None" /\ file' = book
    /\ UNCHANGED <<formatter, call, progress, book, plan, text, last_text>>

(***************************************************************************)
(* The steps of the methods.  A step runs the method at the head of the    *)
(* plan up to and including the chatbot's answer to the one prompt it      *)
(* sends.                                                                  *)
(***************************************************************************)
Replies(texts) == {Str(x) : x \in texts} \cup {ConnectionError}

Request(kind, section, subsection) ==
    [kind |-> kind, section |-> section, subsection |-> subsection]

Running(name) == plan # <<>> /\ plan[1].op = name

\* A variant of create_title_result that sets the flag even when no title was
\* found in the answer.
create_title_result_flagged(b, p, r) ==
    IF IsRaised(r) THEN [book |-> b, progress |-> p]
    ELSE LET title == extract_first_option(extract_central_text(r.v, FALSE, FALSE))
         IN  IF title = None THEN [book |-> b, progress |-> [p EXCEPT !.title = TRUE]]
             ELSE [book |-> [b EXCEPT !.title = Str(RemoveChar(title.v, "\""))],
                   progress |-> [p EXCEPT !.title = TRUE]]

\* create_title, from the chatbot's answer r on: the new book and progress.
create_title_result(b, p, r) ==
    IF IsRaised(r) THEN [book |-> b, progress |-> p]
    ELSE LET title == extract_first_option(extract_central_text(r.v, FALSE, FALSE))
         IN  IF title = None THEN [book |-> b, progress |-> p]
             ELSE [book |-> [b EXCEPT !.title = Str(RemoveChar(title.v, "\""))],
                   progress |-> [p EXCEPT !.title = TRUE]]

create_title ==
    /\ Running("create_title")
    /\ plan' = Tail(plan)
    /\ IF book.title # None
       THEN UNCHANGED <<book, progress, asked, reply>>
       ELSE \E r \in Replies(TitleReplies) :
               /\ asked' = Append(asked, Request("title", None, None))
               /\ reply' = r
               /\ book' = create_title_result(book, progress, r).book
               /\ progress' = create_title_result(book, progress, r).progress
    /\ UNCHANGED <<formatter, call, text, last_text, op, calls, file, result, escaped>>

create_toc_result(b, p, r) ==
    IF IsRaised(r) THEN [book |-> b, progress |-> p]
    ELSE [book |-> [b EXCEPT !.toc = Str(extract_central_text(r.v, FALSE, FALSE))],
          progress |-> [p EXCEPT !.toc = TRUE]]

create_toc_with(replies) ==
    /\ Running("create_toc")
    /\ plan' = Tail(plan)
    /\ IF book.toc # None
       THEN UNCHANGED <<book, progress, asked, reply>>
       ELSE \E r \in Replies(replies) :
               /\ asked' = Append(asked, Request("toc", None, None))
               /\ reply' = r
               /\ book' = create_toc_result(book, progress, r).book
               /\ progress' = create_toc_result(book, progress, r).progress
    /\ UNCHANGED <<formatter, call, text, last_text, op, calls, file, result, escaped>>

create_toc == create_toc_with(TocReplies)

create_description_result(b, p, r) ==
    IF IsRaised(r) THEN [book |-> b, progress |-> p]
    ELSE [book |-> [b EXCEPT !.description =
                      Str(RemoveChar(extract_central_text(r.v, FALSE, FALSE), "\""))],
          progress |-> [p EXCEPT !.description = TRUE]]

create_description ==
    /\ Running("create_description")
    /\ plan' = Tail(plan)
    /\ IF book.description # None
       THEN UNCHANGED <<book, progress, asked, reply>>
       ELSE \E r \in Replies(DescriptionReplies) :
               /\ asked' = Append(asked, Request("description", None, None))
               /\ reply' = r
               /\ book' = create_description_result(book, progress, r).book
               /\ progress' = create_description_result(book, progress, r).progress
    /\ UNCHANGED <<formatter, call, text, last_text, op, calls, file, result, escaped>>

create_keywords_result(b, p, r) ==
    IF IsRaised(r) THEN [book |-> b, progress |-> p]
    ELSE [book |-> [b EXCEPT !.keywords =
                      List(extract_list_from_numbered_list_text(
                               extract_central_text(r.v, FALSE, FALSE)))],
          progress |-> [p EXCEPT !.keywords = TRUE]]

create_keywords ==
    /\ Running("create_keywords")
    /\ plan' = Tail(plan)
    /\ IF book.keywords # None
       THEN UNCHANGED <<book, progress, asked, reply>>
       ELSE \E r \in Replies(KeywordsReplies) :
               /\ asked' = Append(asked, Request("keywords", None, None))
               /\ reply' = r
               /\ book' = create_keywords_result(book, progress, r).book
               /\ progress' = create_keywords_result(book, progress, r).progress
    /\ UNCHANGED <<formatter, call, text, last_text, op, calls, file, result, escaped>>

\* Every list of subsections replaced by OrderedDict.fromkeys(subsections).
PrepareSubsections(section_to_subsections) ==
    Dict(section_to_subsections.keys,
         [i \in 1..Len(section_to_subsections.vals) |->
            IF section_to_subsections.vals[i] = None THEN None
            ELSE DictFromKeys(section_to_subsections.vals[i].v)])

\* BookMaker.extract_sections_from_toc past its first check: the sections to
\* store, None when none was found, or the exception that leaves the method.
\* A toc of None is logged and passed on to extract_utils.
sections_from_toc(toc) ==
    LET section_to_subsections == extract_sections_from_toc(toc)
    IN  IF IsRaised(section_to_subsections) THEN section_to_subsections
        ELSE IF ~Truthy(section_to_subsections) THEN None
        ELSE PrepareSubsections(section_to_subsections)

BookMaker_extract_sections_from_toc ==
    /\ Running("extract_sections_from_toc")
    /\ asked' = Append(asked, Request("extract", None, None))
    /\ IF Truthy(book.sections)
       THEN plan' = Tail(plan) /\ UNCHANGED <<book, escaped>>
       ELSE LET found == sections_from_toc(book.toc)
            IN  IF IsRaised(found)
                THEN plan' = <<>> /\ escaped' = found.kind /\ UNCHANGED book
                ELSE /\ plan' = Tail(plan)
                     /\ book' = IF found = None THEN book
                                ELSE [book EXCEPT !.sections = found]
                     /\ UNCHANGED escaped
    /\ UNCHANGED <<formatter, call, progress, text, last_text, reply, op, calls, file, result>>

\* The calls of create_section the loops of create_sections make for one
\* entry.  Iterating "subsections" yields the keys of a dict, and the
\* characters of a str.
SectionCalls(section, subsections) ==
    IF subsections = None THEN <<Step("create_section", section, None)>>
    ELSE IF IsDict(subsections)
    THEN [i \in 1..Len(subsections.keys) |->
            Step("create_section", section, subsections.keys[i])]
    ELSE [i \in 1..Len(subsections.v) |->
            Step("create_section", section, Str(<<subsections.v[i]>>))]

RECURSIVE AllSectionCalls(_, _)
AllSectionCalls(sections, i) ==
    IF i > Len(sections.keys) THEN <<>>
    ELSE SectionCalls(sections.keys[i], sections.vals[i])
            \o AllSectionCalls(sections, i + 1)

\* create_sections: returns at once when no sections are stored; else one
\* create_section per entry or subsection, and then the flag.
create_sections_steps(sections) ==
    IF sections = None THEN <<>>
    ELSE AllSectionCalls(sections, 1) \o <<Method("sections_done")>>

create_sections ==
    /\ Running("create_sections")
    /\ asked' = Append(asked, Request("create_sections", None, None))
    /\ plan' = create_sections_steps(book.sections) \o Tail(plan)
    /\ UNCHANGED <<formatter, call, progress, book, text, last_text, reply, op, calls, file,
                   result, escaped>>

sections_done ==
    /\ Running("sections_done")
    /\ progress' = [progress EXCEPT !.sections = TRUE]
    /\ plan' = Tail(plan)
    /\ UNCHANGED <<formatter, call, book, text, last_text, asked, reply, op, calls, file, result,
                   escaped>>

\* text if text else ""
iter_start(section_text) == IF section_text = <<>> THEN <<>> ELSE section_text

\* A variant of create_section_with in which a failed request ends
\* create_sections instead of the one create_section.
create_section_with_abort(replies) ==
    /\ Running("create_section")
    /\ \E r \in Replies(replies) :
          /\ asked' = Append(asked, Request("section", plan[1].section, plan[1].subsection))
          /\ reply' = r
          /\ IF IsRaised(r)
             THEN /\ plan' = <<>>
                  /\ UNCHANGED <<text, last_text>>
             ELSE /\ plan' = <<Step("follow_up", plan[1].section, plan[1].subsection)>>
                                \o Tail(plan)
                  /\ text' = iter_start(extract_central_text(r.v, FALSE, FALSE))
                  /\ last_text' = text'
    /\ UNCHANGED <<formatter, call, progress, book, op, calls, file, result, escaped>>

\* create_section up to the first follow-up: a failed request is caught and
\* ends the call, an answer starts _iter_check_if_finished.
create_section_with(replies) ==
    /\ Running("create_section")
    /\ \E r \in Replies(replies) :
          /\ asked' = Append(asked, Request("section", plan[1].section, plan[1].subsection))
          /\ reply' = r
          /\ IF IsRaised(r)
             THEN /\ plan' = Tail(plan)
                  /\ UNCHANGED <<text, last_text>>
             ELSE /\ plan' = <<Step("follow_up", plan[1].section, plan[1].subsection)>>
                                \o Tail(plan)
                  /\ text' = iter_start(extract_central_text(r.v, FALSE, FALSE))
                  /\ last_text' = text'
    /\ UNCHANGED <<formatter, call, progress, book, op, calls, file, result, escaped>>

create_section == create_section_with(SectionReplies)

\* 100 * 0.05: the answer counts as a repetition when fewer than 5% of the
\* characters of the longer text need to change.
SimilarityPercent == 5

\* A variant of check_if_finished that takes only the exact answer "Done."
\* for the sentinel.
check_if_finished_exact(last, text_output) ==
    IF text_output = DoneReply THEN None
    ELSE IF last # <<>>
            /\ 100 * levenshtein_distance(last, text_output)
                 < SimilarityPercent * Max2(Len(last), Len(text_output))
    THEN None
    ELSE Str(text_output)

\* A variant of check_if_finished without the test for a repeated answer.
check_if_finished_sentinel_only(last, text_output) ==
    IF StartsWith(text_output, DoneReply) THEN None ELSE Str(text_output)

\* _check_if_finished past the request: None when the chatbot is done, else
\* its answer.
check_if_finished(last, text_output) ==
    IF StartsWith(text_output, DoneReply) THEN None
    ELSE IF last # <<>>
            /\ 100 * levenshtein_distance(last, text_output)
                 < SimilarityPercent * Max2(Len(last), Len(text_output))
    THEN None
    ELSE Str(text_output)

\* The store at the end of create_section.  Item assignment on a str or on
\* None raises TypeError, which the method catches: nothing is stored.
store_section(b, section, subsection, section_text) ==
    IF Truthy(subsection)
    THEN LET entry == DictGet(b.sections, section)
         IN  IF IsDict(entry)
             THEN [b EXCEPT !.sections =
                     DictSet(b.sections, section,
                             DictSet(entry, subsection, Str(section_text)))]
             ELSE b
    ELSE [b EXCEPT !.sections = DictSet(b.sections, section, Str(section_text))]

FollowUpsMade ==
    LET n == Len(asked)
        from == CHOOSE k \in 0..n :
                   /\ \A j \in (k + 1)..n : asked[j].kind = "follow_up"
                   /\ k = 0 \/ asked[k].kind # "follow_up"
    IN  n - from

\* One round of the loop of _iter_check_if_finished, inside create_section.
follow_up_with(replies) ==
    /\ Running("follow_up")
    /\ \E r \in Replies(replies) :
          /\ asked' = Append(asked, Request("follow_up", plan[1].section, plan[1].subsection))
          /\ reply' = r
          /\ IF IsRaised(r)
             THEN /\ plan' = Tail(plan)
                  /\ text' = <<>>
                  /\ last_text' = <<>>
                  /\ UNCHANGED book
             ELSE LET new_text == check_if_finished(last_text, r.v)
                  IN  IF new_text = None
                      THEN /\ plan' = Tail(plan)
                           /\ book' = store_section(book, plan[1].section,
                                                    plan[1].subsection, text)
                           /\ text' = <<>>
                           /\ last_text' = <<>>
                      ELSE /\ FollowUpsMade < MaxFollowUps
                           /\ text' = merge_text(text, extract_central_text(new_text.v, FALSE, FALSE))
                           /\ last_text' = extract_central_text(new_text.v, FALSE, FALSE)
                           /\ UNCHANGED <<plan, book>>
    /\ UNCHANGED <<formatter, call, progress, op, calls, file, result, escaped>>

follow_up == follow_up_with(FollowUpReplies)

Next ==
    \/ CallCreateBook
    \/ CallMethod
    \/ save
    \/ create_title
    \/ create_toc
    \/ create_description
    \/ create_keywords
    \/ BookMaker_extract_sections_from_toc
    \/ create_sections
    \/ sections_done
    \/ create_section
    \/ follow_up

Spec == Init /\ [][Next]_vars

(***************************************************************************)
(* The continuation loop on its own: one create_book on an outline of one  *)
(* section without subsections, with answers that exercise the merge.      *)
(***************************************************************************)
RECURSIVE Repeat(_, _)
Repeat(s, n) == IF n = 0 THEN <<>> ELSE s \o Repeat(s, n - 1)

MergeTocReplies == { <<"1", ".", " ", "A">> }

MergeSectionReplies ==
    { <<>>,
      <<"H", "e", "l", "l", "o", " ", "w", "o", "r">>,
      <<"x", "a", "b", "y", "a", "b">>,
      <<"c", "a", "b">> }

MergeFollowUpReplies ==
    { DoneReply,
      DoneReply \o <<" ", "o", "k">>,
      <<"w", "o", "r", "l", "d", ",", " ", "d", "o", "n", "e", ".">>,
      <<"i", "\n", "\n", "a", "b", "a", "b", "\n", "\n", "o">>,
      <<"z">>,
      Repeat(<<"a", "b">>, 100) }

CallCreateBookOnce == calls = 0 /\ CallCreateBook

create_toc_merge == create_toc_with(MergeTocReplies)

create_section_merge == create_section_with(MergeSectionReplies)

follow_up_merge == follow_up_with(MergeFollowUpReplies)

NextMerge ==
    \/ CallCreateBookOnce
    \/ create_title
    \/ create_toc_merge
    \/ create_description
    \/ create_keywords
    \/ BookMaker_extract_sections_from_toc
    \/ create_sections
    \/ sections_done
    \/ create_section_merge
    \/ follow_up_merge

SpecMerge == Init /\ [][NextMerge]_vars

(***************************************************************************)
(* The continuation loop without a bound on its rounds: the follow-up      *)
(* requests are not recorded in asked, so that the loop can go on for ever *)
(* among finitely many states.                                             *)
(***************************************************************************)
LoopFollowUpReplies ==
    { DoneReply,
      <<"z">>,
      <<"y">>,
      Repeat(<<"a", "b">>, 11),
      Repeat(<<"a", "b">>, 10) \o <<"a", "c">> }

\* One round of the loop of _iter_check_if_finished ("while True"), however
\* many rounds were made before it.
follow_up_unbounded(replies) ==
    /\ Running("follow_up")
    /\ \E r \in Replies(replies) :
          /\ reply' = r
          /\ IF IsRaised(r)
             THEN /\ plan' = Tail(plan)
                  /\ text' = <<>>
                  /\ last_text' = <<>>
                  /\ UNCHANGED book
             ELSE LET new_text == check_if_finished(last_text, r.v)
                  IN  IF new_text = None
                      THEN /\ plan' = Tail(plan)
                           /\ book' = store_section(book, plan[1].section,
                                                    plan[1].subsection, text)
                           /\ text' = <<>>
                           /\ last_text' = <<>>
                      ELSE /\ text' = merge_text(text, extract_central_text(new_text.v, FALSE, FALSE))
                           /\ last_text' = extract_central_text(new_text.v, FALSE, FALSE)
                           /\ UNCHANGED <<plan, book>>
    /\ UNCHANGED <<formatter, call, progress, asked, op, calls, file, result, escaped>>

follow_up_loop == follow_up_unbounded(LoopFollowUpReplies)

\* A round in which the chatbot says that it is done, or the request fails.
done_answer == follow_up_unbounded({DoneReply}) /\ plan' = Tail(plan)

NextLoop ==
    \/ CallCreateBookOnce
    \/ create_title
    \/ create_toc_merge
    \/ create_description
    \/ create_keywords
    \/ BookMaker_extract_sections_from_toc
    \/ create_sections
    \/ sections_done
    \/ create_section_merge
    \/ follow_up_loop

\* The chatbot does in the end give an answer that ends the loop: a loop that
\* is running does not go on for ever without such a round.
SpecLoop ==
    /\ Init
    /\ [][NextLoop]_vars
    /\ WF_vars(done_answer)

(***************************************************************************)
(* book_formatter.py: one BookFormatter, from its construction on a book   *)
(* dict through format_book.                                               *)
(***************************************************************************)
\* A book dict has at most MaxSections sections.
MaxSections == 2

\* A section with subsections has at most MaxSubsections of them.
MaxSubsections == 2

Num(n) == [t |-> "int", v |-> n]

\* The section names of the book dicts, in order, and the subsection names.
FormatSectionNames == <<Str(<<"A">>), Str(<<"B">>), Str(<<"C">>)>>

FormatSubsectionNames == {Str(<<"x">>), Str(<<"x", ".">>), Str(<<"B">>)}

\* What a section maps to in a book dict: None or a body for a section
\* without subsections, else the subsections (distinct names) and their
\* bodies.
FormatSectionValues ==
    {None, Str(<<>>), Str(<<"t">>)}
       \cup UNION {
              {Dict(names, [k \in 1..n |-> Str(<<"t">>)]) :
                 names \in {f \in [1..n -> FormatSubsectionNames] :
                               \A i, j \in 1..n : f[i] = f[j] => i = j}} :
              n \in 1..MaxSubsections}

FormatBooks ==
    UNION {
      {[title |-> Str(<<"T">>),
        sections |-> Dict(SubSeq(FormatSectionNames, 1, n), values)] :
         values \in [1..n -> FormatSectionValues]} :
      n \in 1..MaxSections}

\* BookFormatter.__init__
BookFormatter(book_dict) ==
    [book_dict |-> book_dict,
     name_to_epubhtml |-> Dict(<<>>, <<>>),
     book |-> None,
     spine |-> <<Str(<<"n", "a", "v">>)>>,
     steps |-> <<>>,
     called |-> FALSE,
     raised |-> "none"]

InitFormat ==
    /\ InitWith(None)
    /\ call = None
    /\ \E book_dict \in FormatBooks : formatter = BookFormatter(book_dict)

\* The variables of the BookMaker and of the helper calls.
maker_vars == <<progress, book, plan, text, last_text, asked, reply, op, calls,
                file, result, escaped, call>>

FormatStep(name, section, subsection, subsection_num) ==
    [op |-> name, section |-> section, subsection |-> subsection,
     subsection_num |-> subsection_num]

FormatMethod(name) == FormatStep(name, None, None, None)

Formatting(name) ==
    /\ formatter # None
    /\ formatter.steps # <<>>
    /\ formatter.steps[1].op = name

\* An exception leaves format_book: nothing more of it runs.
FormatRaise(kind) == [formatter EXCEPT !.steps = <<>>, !.raised = kind]

\* format_book, up to and including init_book.
format_book ==
    /\ formatter # None
    /\ ~formatter.called
    /\ formatter' =
          [formatter EXCEPT
             !.called = TRUE,
             !.book = [items |-> <<[kind |-> "EpubItem", uid |-> "style_nav"]>>,
                       toc |-> None, spine |-> None],
             !.steps = <<FormatMethod("add_body"), FormatMethod("add_toc"),
                         FormatMethod("set_spine")>>]
    /\ UNCHANGED maker_vars

\* The calls of add_chapter the loops of add_body make for one entry.
\* Enumerating "subsections" yields the keys of a dict and the characters of
\* a str.
ChapterCalls(section, subsections) ==
    IF subsections = None
    THEN <<FormatStep("add_chapter", section, None, None)>>
    ELSE IF IsDict(subsections)
    THEN [i \in 1..Len(subsections.keys) |->
            FormatStep("add_chapter", section, subsections.keys[i], Num(i - 1))]
    ELSE [i \in 1..Len(subsections.v) |->
            FormatStep("add_chapter", section, Str(<<subsections.v[i]>>), Num(i - 1))]

RECURSIVE AllChapterCalls(_, _)
AllChapterCalls(sections, i) ==
    IF i > Len(sections.keys) THEN <<>>
    ELSE ChapterCalls(sections.keys[i], sections.vals[i])
            \o AllChapterCalls(sections, i + 1)

add_body ==
    /\ Formatting("add_body")
    /\ formatter' =
          [formatter EXCEPT
             !.steps = AllChapterCalls(formatter.book_dict.sections, 1)
                          \o Tail(formatter.steps)]
    /\ UNCHANGED maker_vars

\* The body text prepare_chapter_content looks up, or the exception of
\* the lookup: indexing a str or None by a name is a TypeError.
chapter_body_text(sections, section, subsection) ==
    LET entry == DictGet(sections, section)
    IN  IF subsection = None THEN entry
        ELSE IF IsDict(entry)
        THEN IF DictHas(entry, subsection) THEN DictGet(entry, subsection)
             ELSE Raised("KeyError")
        ELSE Raised("TypeError")

\* A header line: <tag>name</tag>
Header(tag, name) == OpenTag(tag) \o name \o CloseTag(tag)

\* A variant of prepare_chapter_content that puts the section header into
\* the chapter of every subsection.
prepare_chapter_content_all_headed(sections, section, subsection, subsection_num) ==
    LET is_subsection == subsection # None
        section_header ==
            IF is_subsection THEN Header(SECTION_TAG, section.v) \o NL ELSE <<>>
        header ==
            IF is_subsection THEN Header(SUBSECTION_TAG, subsection.v)
            ELSE Header(SECTION_TAG, section.v)
        body_text == chapter_body_text(sections, section, subsection)
    IN  IF IsRaised(body_text) THEN body_text
        ELSE IF ~IsStr(body_text) THEN Raised("TypeError")
        ELSE LET coded == replace_with_code_tag(body_text.v)
             IN  IF IsRaised(coded) THEN coded
                 ELSE LET wrapped == wrap_paragraphs_in_par_tag(coded.v)
                      IN  IF IsRaised(wrapped) THEN wrapped
                          ELSE Str(section_header \o header \o NL \o wrapped.v)

\* prepare_chapter_content: the HTML of the chapter, or the exception that
\* leaves it.  re.findall on a body that is no str is a TypeError.
prepare_chapter_content(sections, section, subsection, subsection_num) ==
    LET is_subsection == subsection # None
        section_header ==
            IF is_subsection /\ subsection_num = Num(0)
            THEN Header(SECTION_TAG, section.v) \o NL
            ELSE <<>>
        header ==
            IF is_subsection THEN Header(SUBSECTION_TAG, subsection.v)
            ELSE Header(SECTION_TAG, section.v)
        body_text == chapter_body_text(sections, section, subsection)
    IN  IF IsRaised(body_text) THEN body_text
        ELSE IF ~IsStr(body_text) THEN Raised("TypeError")
        ELSE LET coded == replace_with_code_tag(body_text.v)
             IN  IF IsRaised(coded) THEN coded
                 ELSE LET wrapped == wrap_paragraphs_in_par_tag(coded.v)
                      IN  IF IsRaised(wrapped) THEN wrapped
                          ELSE Str(section_header \o header \o NL \o wrapped.v)

Xhtml == <<".", "x", "h", "t", "m", "l">>

\* add_chapter: one EpubHtml object, added to the book, to name_to_epubhtml
\* under the chapter name and to the spine.  id is the identity of the
\* object: its rank among the objects created.
add_chapter ==
    /\ Formatting("add_chapter")
    /\ LET section == formatter.steps[1].section
           subsection == formatter.steps[1].subsection
           chapter_name == IF Truthy(subsection) THEN subsection ELSE section
           content == prepare_chapter_content(formatter.book_dict.sections, section,
                         subsection, formatter.steps[1].subsection_num)
           epub_html == [kind |-> "EpubHtml",
                         id |-> Len(formatter.spine),
                         title |-> chapter_name.v,
                         file_name |-> chapter_name_to_filename(chapter_name.v) \o Xhtml,
                         content |-> content.v]
       IN  IF IsRaised(content)
           THEN formatter' = FormatRaise(content.kind)
           ELSE formatter' =
                  [formatter EXCEPT
                     !.book.items = Append(@, epub_html),
                     !.name_to_epubhtml = DictSet(@, chapter_name, epub_html),
                     !.spine = Append(@, epub_html),
                     !.steps = Tail(@)]
    /\ UNCHANGED maker_vars

\* The names add_toc looks up in name_to_epubhtml for one entry.
TocNames(section, subsections) ==
    IF subsections = None THEN <<section>>
    ELSE IF IsDict(subsections) THEN subsections.keys
    ELSE [i \in 1..Len(subsections.v) |-> Str(<<subsections.v[i]>>)]

\* add_toc: for every section, in order, its epub.Section and the chapters
\* found under the names of the section; a name not found is a KeyError.
add_toc ==
    /\ Formatting("add_toc")
    /\ LET sections == formatter.book_dict.sections
           names == [i \in 1..Len(sections.keys) |->
                       TocNames(sections.keys[i], sections.vals[i])]
           toc == [i \in 1..Len(sections.keys) |->
                     [section |-> sections.keys[i].v,
                      chapters |-> [k \in 1..Len(names[i]) |->
                                      DictGet(formatter.name_to_epubhtml, names[i][k])]]]
       IN  IF \E i \in 1..Len(names) : \E k \in 1..Len(names[i]) :
                 ~DictHas(formatter.name_to_epubhtml, names[i][k])
           THEN formatter' = FormatRaise("KeyError")
           ELSE formatter' = [formatter EXCEPT !.book.toc = List(toc), !.steps = Tail(@)]
    /\ UNCHANGED maker_vars

\* The end of format_book: the NCX and navigation items, and the spine.
set_spine ==
    /\ Formatting("set_spine")
    /\ formatter' =
          [formatter EXCEPT
             !.book.items = @ \o <<[kind |-> "EpubNcx"], [kind |-> "EpubNav"]>>,
             !.book.spine = List(formatter.spine),
             !.steps = Tail(@)]
    /\ UNCHANGED maker_vars

NextFormat ==
    \/ format_book
    \/ add_body
    \/ add_chapter
    \/ add_toc
    \/ set_spine

SpecFormat == InitFormat /\ [][NextFormat]_vars

(***************************************************************************)
(* Calls of the helper functions: one function applied to one input        *)
(***************************************************************************)
\* The longest input text of a helper call, in tokens.
MaxTokens == 4

RECURSIVE Concat(_)
\* The concatenation of a sequence of texts.
Concat(parts) == IF parts = <<>> THEN <<>> ELSE parts[1] \o Concat(Tail(parts))

\* The texts made of at most n of the given tokens.
TokenTexts(tokens, n) ==
    {Concat(parts) : parts \in UNION {[1..k -> tokens] : k \in 0..n}}

\* A call about to be made, and the call once it has returned (or raised).
Pending(fn, args) == [fn |-> fn, args |-> args, ret |-> None, done |-> FALSE]

Returned(fn, args, ret) == [fn |-> fn, args |-> args, ret |-> ret, done |-> TRUE]

Calling(fn) == call # None /\ call.fn = fn /\ ~call.done

Called(fn) == call # None /\ call.fn = fn /\ call.done

\* The variables of the BookMaker and of the BookFormatter.
object_vars == <<progress, book, plan, text, last_text, asked, reply, op, calls,
                 file, result, escaped, formatter>>

InitCall(fn, inputs) ==
    /\ InitWith(None)
    /\ formatter = None
    /\ \E args \in inputs : call = Pending(fn, args)

\* Body texts: letters, single backquotes, code block identifiers, line and
\* paragraph breaks.
BodyTexts ==
    TokenTexts({<<"a">>, <<Backquote>>, Fence, NL, NLNL}, MaxTokens)

InitBody == InitCall("replace_with_code_tag", {<<Str(t)>> : t \in BodyTexts})

\* prepare_chapter_content, first step on the body text.
call_replace_with_code_tag ==
    /\ Calling("replace_with_code_tag")
    /\ call' = Returned(call.fn, call.args, replace_with_code_tag(call.args[1].v))
    /\ UNCHANGED object_vars

\* prepare_chapter_content, second step: the text replace_with_code_tag
\* returned goes to wrap_paragraphs_in_par_tag.
call_wrap_paragraphs_in_par_tag ==
    /\ Called("replace_with_code_tag")
    /\ IsStr(call.ret)
    /\ call' = Returned("wrap_paragraphs_in_par_tag", <<call.ret>>,
                        wrap_paragraphs_in_par_tag(call.ret.v))
    /\ UNCHANGED object_vars

NextBody ==
    \/ call_replace_with_code_tag
    \/ call_wrap_paragraphs_in_par_tag

SpecBody == InitBody /\ [][NextBody]_vars

\* The most paragraphs of a text given to extract_central_text.
MaxParagraphs == 4

\* The most lines of a text given to extract_first_option.
MaxLines == 3

\* A Python bool among the arguments of a call.
Bool(b) == [t |-> "bool", v |-> b]

\* The texts made of at most n of the given parts, joined by sep.
JoinedTexts(parts, sep, n) ==
    {Join(ps, sep) : ps \in UNION {[1..k -> parts] : k \in 0..n}}

\* Chatbot answers as extract_central_text meets them: paragraphs, empty
\* ones and "---" among them.
CentralTexts ==
    JoinedTexts({<<"A">>, <<"B">>, <<"C">>, <<"-", "-", "-">>, <<>>}, NLNL, MaxParagraphs)

\* Chatbot answers as extract_first_option meets them: plain lines, numbered
\* and bulleted items, "- " inside a line, empty lines.
OptionTexts ==
    JoinedTexts({<<>>, <<"a">>, <<"1", ".", " ", "b">>, <<"1", ")", " ", "c">>,
                 <<"2", ".", " ", "g">>, <<"-", " ", "d">>, <<" ", "-", " ", "e">>,
                 <<"a", "-", " ", "f">>}, NL, MaxLines)

InitExtract ==
    \/ InitCall("extract_central_text",
                {<<Str(t), Bool(include_start), Bool(include_end)>> :
                    t \in CentralTexts, include_start \in BOOLEAN, include_end \in BOOLEAN})
    \/ InitCall("extract_first_option", {<<Str(t)>> : t \in OptionTexts})

call_extract_central_text ==
    /\ Calling("extract_central_text")
    /\ call' = Returned(call.fn, call.args,
                        Str(extract_central_text(call.args[1].v, call.args[2].v,
                                                 call.args[3].v)))
    /\ UNCHANGED object_vars

call_extract_first_option ==
    /\ Calling("extract_first_option")
    /\ call' = Returned(call.fn, call.args, extract_first_option(call.args[1].v))
    /\ UNCHANGED object_vars

NextExtract ==
    \/ call_extract_central_text
    \/ call_extract_first_option

SpecExtract == InitExtract /\ [][NextExtract]_vars

\* Tables of contents as the chatbot writes them: numbered and plain section
\* lines, bulleted subsection lines (one with a number in it), line and
\* paragraph breaks.
TocTexts ==
    TokenTexts({<<"1", ".", " ", "A">>, <<"B">>, <<"-", " ", "x">>,
                <<"-", " ", "2", ":", " ", "y">>, NL, NLNL}, MaxTokens)

InitToc == InitCall("extract_sections_from_toc", {<<Str(t)>> : t \in TocTexts})

\* extract_sections_from_toc(args[1]).  A second argument, when there is
\* one, is the mapping the text was written from; the function never sees it.
call_extract_sections_from_toc ==
    /\ Calling("extract_sections_from_toc")
    /\ call' = Returned(call.fn, call.args, extract_sections_from_toc(call.args[1]))
    /\ UNCHANGED object_vars

RECURSIVE Decimal(_)
\* str(n) for n >= 0
Decimal(n) ==
    LET digit == <<"0", "1", "2", "3", "4", "5", "6", "7", "8", "9">>[(n % 10) + 1]
    IN  IF n < 10 THEN <<digit>> ELSE Append(Decimal(n \div 10), digit)

\* Section k of a mapping as text: the header line "<k>. <section>", then
\* one line "- <subsection>" for each subsection.
SectionText(d, k) ==
    LET header == Decimal(k) \o <<".", " ">> \o d.keys[k].v
        subs == IF d.vals[k] = None THEN <<>> ELSE d.vals[k].v
    IN  Join(<<header>> \o [j \in 1..Len(subs) |-> <<"-", " ">> \o subs[j].v], NL)

\* A mapping as text, its sections separated by sep.
Serialized(d, sep) == Join([k \in 1..Len(d.keys) |-> SectionText(d, k)], sep)

\* The subsections of every section are None or strings.
Serializable(d) ==
    \A k \in 1..Len(d.vals) :
       d.vals[k] # None => \A j \in 1..Len(d.vals[k].v) : IsStr(d.vals[k].v[j])

\* The mapping a call returned is written out again, its sections separated
\* by blank lines or all in one paragraph, and the text is the next input.
reserialize ==
    /\ Called("extract_sections_from_toc")
    /\ Len(call.args) = 1
    /\ IsDict(call.ret)
    /\ Serializable(call.ret)
    /\ \E sep \in {NL, NLNL} :
          call' = Pending(call.fn, <<Str(Serialized(call.ret, sep)), call.ret>>)
    /\ UNCHANGED object_vars

NextToc ==
    \/ call_extract_sections_from_toc
    \/ reserialize

SpecToc == InitToc /\ [][NextToc]_vars

\* The calls of prepare_chapter_content for a book dict: for a section
\* with subsections one call for each subsection, with its index as add_body
\* counts it, and for any other section the call for the section itself.
ChapterInputs(b) ==
    UNION {
       IF IsDict(b.sections.vals[i])
       THEN {<<b.sections, b.sections.keys[i], b.sections.vals[i].keys[k], Num(k - 1)>> :
                k \in 1..Len(b.sections.vals[i].keys)}
       ELSE {<<b.sections, b.sections.keys[i], None, None>>} :
       i \in 1..Len(b.sections.keys)}

InitChapter ==
    \E b \in FormatBooks : InitCall("prepare_chapter_content", ChapterInputs(b))

call_prepare_chapter_content ==
    /\ Calling("prepare_chapter_content")
    /\ call' = Returned(call.fn, call.args,
                        prepare_chapter_content(call.args[1], call.args[2],
                                                call.args[3], call.args[4]))
    /\ UNCHANGED object_vars

NextChapter == call_prepare_chapter_content

SpecChapter == InitChapter /\ [][NextChapter]_vars

(***************************************************************************)
(* Properties                                                              *)
(***************************************************************************)
\* The step just taken sent a prompt of this kind (or entered the method).
Sent(kind) ==
    /\ Len(asked') = Len(asked) + 1
    /\ asked'[Len(asked')].kind = kind

Saved == op' = "save" /\ calls' = calls + 1

\* C1: save(path) writes the JSON file only in a state where all five
\* progress flags are true; in every other state it writes nothing and
\* returns False.
C1_SaveOnlyWhenAllProgress ==
    [][ /\ (file' # file => Saved /\ AllProgress)
        /\ (Saved /\ AllProgress => file' = book)
        /\ (Saved /\ ~AllProgress => file' = file /\ result' = "False") ]_vars

\* Witness of C1: save was refused on a book of which some steps failed.
C1_Witness ==
    /\ op = "save" /\ result = "False" /\ file = None
    /\ progress.title /\ progress.toc /\ ~progress.description

SectionsPopulated(sections) ==
    /\ sections # None
    /\ \A i \in 1..Len(sections.vals) :
          \/ IsStr(sections.vals[i])
          \/ /\ IsDict(sections.vals[i])
             /\ \A j \in 1..Len(sections.vals[i].vals) : IsStr(sections.vals[i].vals[j])

FullyPopulated(b) ==
    /\ b.title # None /\ b.toc # None /\ b.description # None /\ b.keywords # None
    /\ SectionsPopulated(b.sections)

\* C2: whenever save writes the file (all progress flags true) the model is
\* fully populated: title, toc, description and keywords non-null and every
\* leaf and subsection body a string.
C2_SavedBookFullyPopulated == file # None => FullyPopulated(file)

\* C3: a failed request (initial or follow-up) while generating one section
\* or subsection is caught for that item only: nothing stored changes, the
\* later create_section calls still run, and no exception leaves
\* create_sections; so the first create_sections of a create_book requests
\* every item of the outline, in outline order.
SectionRequests == SelectSeq(asked, LAMBDA e : e.kind = "section")

OutlineCalls(toc) ==
    LET found == sections_from_toc(toc)
    IN  IF found = None THEN <<>> ELSE AllSectionCalls(found, 1)

C3_FailureIsolatedPerItem ==
    /\ [][ ((Sent("section") \/ Sent("follow_up")) /\ IsRaised(reply'))
              => /\ book' = book
                 /\ progress' = progress
                 /\ plan' = Tail(plan)
                 /\ escaped' = "none" ]_vars
    /\ [](  (op = "create_book" /\ calls = 1 /\ plan = <<>> /\ book.toc # None)
              => /\ escaped = "none"
                 /\ Len(SectionRequests) = Len(OutlineCalls(book.toc))
                 /\ \A k \in 1..Len(SectionRequests) :
                       /\ SectionRequests[k].section = OutlineCalls(book.toc)[k].section
                       /\ SectionRequests[k].subsection = OutlineCalls(book.toc)[k].subsection )

\* Witness of C3: create_book ended with the first of two items not
\* generated (its request failed) and the second one generated.
C3_Witness ==
    /\ op = "create_book" /\ calls = 1 /\ plan = <<>> /\ progress.sections
    /\ Len(SectionRequests) = 2
    /\ IsDict(book.sections.vals[1]) /\ book.sections.vals[1].vals[1] = None
    /\ IsStr(book.sections.vals[2])

\* C4: whatever requests fail, create_book returns without an exception
\* leaving it; in particular with the table of contents not generated the
\* extraction and create_sections are skipped without raising.
C4_CreateBookNeverRaises == op = "create_book" => escaped = "none"

\* C5: a true flag for title, toc, description or keywords implies the field
\* is non-null and a true sections flag implies a non-null, non-empty
\* sections mapping; a title request that fails or yields no option leaves
\* the title null and its flag false, an empty outline leaves sections null
\* and a following create_sections returns with the sections flag false.
NoTitleIn(r) ==
    \/ IsRaised(r)
    \/ extract_first_option(extract_central_text(r.v, FALSE, FALSE)) = None

C5_FlagImpliesField ==
    /\ [](  /\ progress.title => book.title # None
            /\ progress.toc => book.toc # None
            /\ progress.description => book.description # None
            /\ progress.keywords => book.keywords # None
            /\ progress.sections =>
                  book.sections # None /\ IsDict(book.sections)
                  /\ Len(book.sections.keys) > 0 )
    /\ [][ /\ (Sent("title") /\ NoTitleIn(reply'))
                 => book'.title = None /\ ~progress'.title
           /\ (Sent("extract") /\ book.sections = None /\ book.toc # None
                 /\ sections_from_toc(book.toc) = None)
                 => book'.sections = None /\ ~progress'.sections
           /\ (Sent("create_sections") /\ book.sections = None)
                 => plan' = Tail(plan) /\ ~progress'.sections ]_vars

\* Witness of C5: create_book ended with no title found and an empty outline:
\* both fields unset, both flags false, create_sections entered.
C5_Witness ==
    /\ op = "create_book" /\ plan = <<>>
    /\ \E k \in 1..Len(asked) : asked[k].kind = "title"
    /\ \E k \in 1..Len(asked) : asked[k].kind = "create_sections"
    /\ book.title = None /\ ~progress.title
    /\ book.toc = Str(<<>>) /\ book.sections = None /\ ~progress.sections

\* The body the book holds for a requested item: the subsection's body in a
\* container, else the section's own value.
ItemBody(b, e) ==
    LET entry == DictGet(b.sections, e.section)
    IN  IF e.subsection # None /\ IsDict(entry) /\ DictHas(entry, e.subsection)
        THEN DictGet(entry, e.subsection)
        ELSE entry

BodyKept(old, new) ==
    IF IsStr(old) THEN new = old
    ELSE IF IsDict(old) /\ IsDict(new)
    THEN \A j \in 1..Len(old.vals) : IsStr(old.vals[j]) => new.vals[j] = old.vals[j]
    ELSE TRUE

\* C6: create_sections requests contents only for sections and subsections
\* whose body is still null; a non-null body is never requested again and
\* never replaced.
C6_OnlyUncreatedGenerated ==
    [][ /\ Sent("section") =>
              (IsDict(ItemBody(book, asked'[Len(asked')]))
               \/ ItemBody(book, asked'[Len(asked')]) = None)
        /\ (book.sections # None /\ book'.sections # None) =>
              \A i \in 1..Len(book.sections.vals) :
                 BodyKept(book.sections.vals[i], book'.sections.vals[i]) ]_vars

\* C7: once the sections mapping is stored each entry keeps its shape: a
\* container is never replaced by a string or null, and a leaf (null) only
\* by a string.
C7_ShapeFixed ==
    [][ book.sections # None =>
          \A i \in 1..Len(book.sections.vals) :
             /\ IsDict(book.sections.vals[i]) => IsDict(book'.sections.vals[i])
             /\ ~IsDict(book.sections.vals[i]) => ~IsDict(book'.sections.vals[i]) ]_vars

\* C8: create_book sends its requests in the fixed order title, table of
\* contents, description, keywords, outline extraction, section bodies, and
\* the section bodies in outline order, after the extraction.
Rank(kind) ==
    CASE kind = "title" -> 1
      [] kind = "toc" -> 2
      [] kind = "description" -> 3
      [] kind = "keywords" -> 4
      [] kind = "extract" -> 5
      [] kind = "create_sections" -> 6
      [] kind = "section" -> 7
      [] kind = "follow_up" -> 7

InOutlineOrder(toc, e1, e2) ==
    LET outline == sections_from_toc(toc)
        i1 == DictIndex(outline, e1.section)
        i2 == DictIndex(outline, e2.section)
        subs == outline.vals[i1]
    IN  /\ i1 # 0 /\ i2 # 0 /\ i1 <= i2
        /\ (i1 = i2 /\ subs # None /\ DictHas(subs, e1.subsection)
              /\ DictHas(subs, e2.subsection))
             => DictIndex(subs, e1.subsection) < DictIndex(subs, e2.subsection)

C8_FixedOrder ==
    op = "create_book" =>
       /\ \A j \in 1..Len(asked) : \A k \in (j + 1)..Len(asked) :
             Rank(asked[j].kind) <= Rank(asked[k].kind)
       /\ \A k \in 1..Len(asked) : asked[k].kind = "section" =>
             \E j \in 1..(k - 1) : asked[j].kind = "extract"
       /\ \A j \in 1..Len(SectionRequests) : \A k \in (j + 1)..Len(SectionRequests) :
             InOutlineOrder(book.toc, SectionRequests[j], SectionRequests[k])

\* Witness of C8: a create_book that sent all four field requests and two
\* section requests.
C8_Witness ==
    /\ op = "create_book" /\ plan = <<>>
    /\ Len(asked) >= 8
    /\ asked[1].kind = "title" /\ asked[2].kind = "toc"
    /\ asked[3].kind = "description" /\ asked[4].kind = "keywords"
    /\ Len(SectionRequests) = 2

\* The step just taken is a round of the continuation loop whose answer
\* starts with the sentinel.
DoneStep ==
    /\ Sent("follow_up")
    /\ ~IsRaised(reply')
    /\ StartsWith(reply'.v, DoneReply)

\* C9: as soon as a follow-up answer starts with "Done." the loop ends and
\* returns the text accumulated so far, the sentinel answer not merged; when
\* that is the first follow-up, the result is the initial text (the central
\* text of the section's answer, possibly empty) and one follow-up was sent.
C9_DoneReturnsAccumulated ==
    [][ DoneStep =>
          /\ plan' = Tail(plan)
          /\ DictGet(book'.sections, plan[1].section) = Str(text)
          /\ asked[Len(asked)].kind = "section" =>
                /\ text = extract_central_text(reply.v, FALSE, FALSE)
                /\ FollowUpsMade' = 1 ]_vars

\* Witness of C9: the section's answer was empty and the first follow-up
\* answered "Done.": the body stored is the empty string.
C9_Witness ==
    /\ plan = <<>> /\ book.sections # None
    /\ book.sections.vals[1] = Str(<<>>)
    /\ FollowUpsMade = 1 /\ reply = Str(DoneReply)

\* i and j (0-based) start a common block of k elements of a and b.
IsCommon(a, b, i, j, k) ==
    /\ i + k <= Len(a) /\ j + k <= Len(b)
    /\ \A t \in 1..k : a[i + t] = b[j + t]

HasCommon(a, b, k) ==
    \E i \in 0..(Len(a) - k) : \E j \in 0..(Len(b) - k) : IsCommon(a, b, i, j, k)

\* The longest common contiguous substring of a and b: its length, and its
\* start in a (the earliest) and in b (the earliest for that start in a).
LongestCommonSubstring(a, b) ==
    LET most == Min2(Len(a), Len(b))
        size == CHOOSE k \in 0..most :
                   HasCommon(a, b, k) /\ (k = most \/ ~HasCommon(a, b, k + 1))
        starts == {ij \in (0..(Len(a) - size)) \X (0..(Len(b) - size)) :
                      IsCommon(a, b, ij[1], ij[2], size)}
        first == CHOOSE x \in starts : \A y \in starts :
                    x[1] < y[1] \/ (x[1] = y[1] /\ x[2] <= y[2])
    IN  [a |-> first[1], b |-> first[2], size |-> size]

\* The step just taken merged a follow-up answer into the text.
MergeStep == Sent("follow_up") /\ plan' = plan

\* C10: each merge sets the text to text[0:a] ++ fragment[b:], fragment being
\* the central text of the follow-up answer and (a, b) the starts of the
\* longest common contiguous substring of the text and the fragment.
C10_MergeAtLongestCommonSubstring ==
    [][ MergeStep =>
          LET fragment == extract_central_text(reply'.v, FALSE, FALSE)
              common == LongestCommonSubstring(text, fragment)
          IN  text' = SubSeq(text, 1, common.a)
                         \o SubSeq(fragment, common.b + 1, Len(fragment)) ]_vars
\* The edit distance of the two texts, divided by the length of the longer,
\* is below 0.05.
NearDuplicate(last_fragment, fragment) ==
    100 * levenshtein_distance(last_fragment, fragment)
       < SimilarityPercent * Max2(Len(last_fragment), Len(fragment))

\* The fragment a new answer is to be compared with: the initial text in
\* the first round of the loop, the previous raw answer in a later round.
LastRawFragment ==
    IF asked[Len(asked)].kind = "section" THEN text ELSE reply.v

\* C11: a round of the continuation loop ends the loop without appending the
\* new answer when the edit distance between last_fragment and the raw
\* answer, over the length of the longer, is below 0.05; last_fragment is the
\* initial text in the first round and the previous raw answer afterwards.
C11_NearDuplicateOfRawEndsLoop ==
    [][ (Sent("follow_up") /\ ~IsRaised(reply')
           /\ NearDuplicate(LastRawFragment, reply'.v))
          => /\ plan' = Tail(plan)
             /\ DictGet(book'.sections, plan[1].section) = Str(text) ]_vars
\* format_book was called and has ended, normally or by an exception.
Formatted == formatter # None /\ formatter.called /\ formatter.steps = <<>>

\* The chapters of the spine, after its leading "nav" entry.
SpineChapters == SubSeq(formatter.spine, 2, Len(formatter.spine))

RECURSIVE OutlineChapters(_, _)
\* The chapter titles of a book in outline order: the name of a section
\* without subsections, the names of the subsections of a container.
OutlineChapters(sections, i) ==
    IF i > Len(sections.keys) THEN <<>>
    ELSE (IF IsDict(sections.vals[i])
          THEN [k \in 1..Len(sections.vals[i].keys) |-> sections.vals[i].keys[k].v]
          ELSE <<sections.keys[i].v>>)
            \o OutlineChapters(sections, i + 1)

\* C12: for a populated book with distinct names, format_book makes one
\* chapter per section without subsections and one per subsection, and the
\* spine after "nav" lists them in outline order.
C12_OneChapterPerLeafAndSubsection ==
    (Formatted /\ SectionsPopulated(formatter.book_dict.sections))
       => /\ formatter.raised = "none"
          /\ [k \in 1..Len(SpineChapters) |-> SpineChapters[k].title]
                = OutlineChapters(formatter.book_dict.sections, 1)
          /\ formatter.book.spine = List(formatter.spine)

\* C13: the identifiers (file names) of the chapters of a document are
\* pairwise distinct, the names of the book being distinct in their scope.
C13_ChapterIdentifiersDistinct ==
    formatter # None =>
       \A j, k \in 1..Len(SpineChapters) :
          SpineChapters[j].file_name = SpineChapters[k].file_name => j = k

\* How many chapters add_body creates for the entries before entry i.
ChaptersBefore(sections, i) == Len(AllChapterCalls(sections, 1))
                                  - Len(AllChapterCalls(sections, i))

\* C14: after format_book the navigation structure has one entry per
\* section, in outline order, and the chapters of each entry are the
\* chapters add_body created for that section, in order.
C14_TocListsOwnChapters ==
    (Formatted /\ formatter.raised = "none")
       => LET sections == formatter.book_dict.sections
              toc == formatter.book.toc.v
          IN  /\ Len(toc) = Len(sections.keys)
              /\ \A i \in 1..Len(toc) :
                    /\ toc[i].section = sections.keys[i].v
                    /\ toc[i].chapters =
                          SubSeq(SpineChapters,
                                 ChaptersBefore(sections, i) + 1,
                                 ChaptersBefore(sections, i + 1))

\* The four tags of a rendered chapter body.
BodyTags == {OpenTag(PAR_TAG), CloseTag(PAR_TAG), OpenTag(CODE_TAG), CloseTag(CODE_TAG)}

RECURSIVE TagsFrom(_, _)
\* The tags of a text from position i on, in order.
TagsFrom(s, i) ==
    IF i > Len(s) THEN <<>>
    ELSE IF \E tag \in BodyTags : IsAt(s, tag, i)
    THEN LET tag == CHOOSE tag \in BodyTags : IsAt(s, tag, i)
         IN  <<tag>> \o TagsFrom(s, i + Len(tag))
    ELSE TagsFrom(s, i + 1)

RECURSIVE Nested(_, _)
\* Every closing tag closes the element opened last and not yet closed (open
\* holds the elements still open), and nothing is left open at the end.
Nested(tags, open) ==
    IF tags = <<>> THEN open = <<>>
    ELSE IF \E name \in {PAR_TAG, CODE_TAG} : tags[1] = OpenTag(name)
    THEN Nested(Tail(tags),
                Append(open, CHOOSE name \in {PAR_TAG, CODE_TAG} : tags[1] = OpenTag(name)))
    ELSE /\ open # <<>>
         /\ tags[1] = CloseTag(open[Len(open)])
         /\ Nested(Tail(tags), SubSeq(open, 1, Len(open) - 1))

WellFormed(s) == Nested(TagsFrom(s, 1), <<>>)

\* C15: a body text with an even number of code block identifiers that
\* wrap_paragraphs_in_par_tag accepts is rendered as well-formed markup: each
\* <p> and <code> is closed, and the elements are properly nested.
C15_BodyWellFormed ==
    (Called("wrap_paragraphs_in_par_tag") /\ IsStr(call.ret))
       => WellFormed(call.ret.v)

RECURSIVE Alternated(_, _, _)
\* One pass over a text from position i, left to right: marker number k is
\* replaced by <code> when k is odd and by </code> when k is even, any other
\* character is kept.
Alternated(s, i, k) ==
    IF i > Len(s) THEN <<>>
    ELSE IF IsAt(s, Fence, i)
    THEN (IF k % 2 = 1 THEN OpenTag(CODE_TAG) ELSE CloseTag(CODE_TAG))
            \o Alternated(s, i + Len(Fence), k + 1)
    ELSE <<s[i]>> \o Alternated(s, i + 1, k)

RECURSIVE Markers(_, _)
\* The number of markers that pass meets.
Markers(s, i) ==
    IF i > Len(s) THEN 0
    ELSE IF IsAt(s, Fence, i) THEN 1 + Markers(s, i + Len(Fence))
    ELSE Markers(s, i + 1)

\* C16: replace_with_code_tag raises AssertionError for a text with an odd
\* number of markers; for an even number it replaces marker k by <code> when
\* k is odd and by </code> when k is even and keeps every other character.
C16_MarkersAlternate ==
    Called("replace_with_code_tag")
       => LET s == call.args[1].v
          IN  IF Markers(s, 1) % 2 = 1
              THEN call.ret = Raised("AssertionError")
              ELSE call.ret = Str(Alternated(s, 1, 1))

\* A text with two markers and other characters was converted.
C16_Witness ==
    /\ Called("replace_with_code_tag")
    /\ IsStr(call.ret)
    /\ Markers(call.args[1].v, 1) = 2
    /\ Len(call.args[1].v) > 2 * Len(Fence)

\* The paragraphs of a text that are not "---".
KeptParagraphs(s) == SelectSeq(Split(s, NLNL), LAMBDA p : p # <<"-", "-", "-">>)

\* C17: extract_central_text returns "" for no paragraph left after "---"
\* paragraphs are discarded, the paragraph for one, for two the second or
\* (include_start) both, and for three or more all but the first (unless
\* include_start) and the last (unless include_end), joined by blank lines.
C17_CentralTextCases ==
    Called("extract_central_text")
       => LET s == call.args[1].v
              include_start == call.args[2].v
              include_end == call.args[3].v
              ps == KeptParagraphs(s)
              n == Len(ps)
              kept == CASE n = 0 -> <<>>
                        [] n = 1 -> ps
                        [] n = 2 -> IF include_start THEN ps ELSE <<ps[2]>>
                        [] OTHER -> SubSeq(ps, IF include_start THEN 1 ELSE 2,
                                           IF include_end THEN n ELSE n - 1)
              ABC == <<"A", "\n", "\n", "B", "\n", "\n", "C">>
          IN  /\ call.ret = Str(Join(kept, NLNL))
              /\ (s = ABC /\ ~include_start /\ ~include_end) => call.ret = Str(<<"B">>)
              /\ (s = ABC /\ include_start /\ ~include_end)
                    => call.ret = Str(<<"A", "\n", "\n", "B">>)
              /\ (s = ABC /\ include_start /\ include_end) => call.ret = Str(ABC)
              /\ (s = <<"A">>) => call.ret = Str(s)

\* Three paragraphs were left of four, the first kept and the last dropped.
C17_Witness ==
    /\ Called("extract_central_text")
    /\ Len(Split(call.args[1].v, NLNL)) = 4
    /\ Len(KeptParagraphs(call.args[1].v)) = 3
    /\ call.args[2].v /\ ~call.args[3].v
    /\ call.ret = Str(<<"A", "\n", "\n", "B">>)

\* The non-empty lines of a text.
TextLines(s) == SelectSeq(Split(s, NL), LAMBDA l : l # <<>>)

\* A line that begins with "1. " or "1) ".
OrderedFirst(line) ==
    StartsWith(line, <<"1", ".", " ">>) \/ StartsWith(line, <<"1", ")", " ">>)

\* Where the "- " of a bulleted line is: after leading whitespace only;
\* 0 for a line that is no bulleted item.
BulletAt(line) ==
    IF \E i \in 1..Len(line) :
          IsAt(line, <<"-", " ">>, i) /\ \A k \in 1..(i - 1) : line[k] = " "
    THEN CHOOSE i \in 1..Len(line) :
          IsAt(line, <<"-", " ">>, i) /\ \A k \in 1..(i - 1) : line[k] = " "
    ELSE 0

\* C18: extract_first_option returns the line of a one-line text; otherwise
\* the remainder of the first line that begins with "1. " or "1) ", whatever
\* bulleted lines come before it; without such a line, the remainder of the
\* first bulleted line (whitespace, then "- "); and None without a candidate.
C18_FirstOptionPrefersOrdered ==
    Called("extract_first_option")
       => LET lines == TextLines(call.args[1].v)
              ordered == SelectSeq(lines, OrderedFirst)
              bulleted == SelectSeq(lines, LAMBDA l : BulletAt(l) # 0)
          IN  call.ret =
                 IF Len(lines) = 1 THEN Str(lines[1])
                 ELSE IF ordered # <<>>
                 THEN Str(SubSeq(ordered[1], 4, Len(ordered[1])))
                 ELSE IF bulleted # <<>>
                 THEN Str(SubSeq(bulleted[1], BulletAt(bulleted[1]) + 2,
                                 Len(bulleted[1])))
                 ELSE None

RECURSIVE BulletedItems(_)
\* The texts of the lines that are bulleted items, in order.
BulletedItems(lines) ==
    IF lines = <<>> THEN <<>>
    ELSE LET item == parse_unordered_list_item_from_line(lines[1])
         IN  (IF item # None THEN <<item>> ELSE <<>>) \o BulletedItems(Tail(lines))

RECURSIVE ParagraphEntries(_, _)
\* One entry for each paragraph: the numbered-item text of its first line, or
\* the line itself, mapped to the bulleted items of the other lines, or to
\* None when there are none.
ParagraphEntries(paragraphs, d) ==
    IF paragraphs = <<>> THEN d
    ELSE LET lines == TextLines(paragraphs[1])
             numbered == parse_numbered_list_item_from_line(lines[1])
             key == IF numbered # None THEN numbered ELSE Str(lines[1])
         IN  ParagraphEntries(Tail(paragraphs),
                 IF lines = <<>> THEN d
                 ELSE DictSet(d, key, ListOrNone(BulletedItems(Tail(lines)))))

\* C19: for a text with a blank-line break extract_sections_from_toc returns,
\* in paragraph order, one entry for each non-empty paragraph: the section of
\* its first line, mapped to the bulleted items of its other lines, every one
\* a string, or to None when there are none.
C19_ParagraphStrategy ==
    (/\ Called("extract_sections_from_toc")
     /\ Find(call.args[1].v, NLNL, 1) # 0)
       => /\ IsDict(call.ret)
          /\ call.ret = ParagraphEntries(
                           SelectSeq(Split(call.args[1].v, NLNL), NonEmpty),
                           Dict(<<>>, <<>>))

\* C20: the mapping extract_sections_from_toc returns for the text a mapping
\* was written out as (header lines "<k>. <section>", lines "- <subsection>")
\* is that mapping.
C20_ReserializedToSame ==
    (Called("extract_sections_from_toc") /\ Len(call.args) = 2)
       => call.ret = call.args[2]

\* The first non-empty line of a text is a bulleted item and no numbered
\* one: in a text of one paragraph no section is open when it is met and no
\* line comes before it.
BulletWithoutHeader(s) ==
    LET lines == TextLines(s)
    IN  /\ lines # <<>>
        /\ parse_numbered_list_item_from_line(lines[1]) = None
        /\ parse_unordered_list_item_from_line(lines[1]) # None

\* C21: extract_sections_from_toc returns a mapping for every text, empty
\* text and text with empty or newline-only paragraphs included; it raises
\* only for a bulleted line that has no section open and no line before it.
C21_ExtractionNeverRaises ==
    (Called("extract_sections_from_toc") /\ IsRaised(call.ret))
       => /\ call.ret = Raised("RuntimeError")
          /\ Find(call.args[1].v, NLNL, 1) = 0
          /\ BulletWithoutHeader(call.args[1].v)

RECURSIVE LineScan(_, _, _, _)
\* The scan of the line strategy as it is described: a bulleted line is
\* added to the subsections of the open section cur and never starts a
\* section, any other line with a numbered item closes the open section
\* (stored with its subsections, None for none) and opens a new one, and the
\* section left open at the end is stored.
LineScan(lines, d, cur, subs) ==
    IF lines = <<>> THEN DictSet(d, cur, ListOrNone(subs))
    ELSE LET bulleted == parse_unordered_list_item_from_line(lines[1])
             numbered == parse_numbered_list_item_from_line(lines[1])
         IN  IF bulleted # None
             THEN LineScan(Tail(lines), d, cur, Append(subs, bulleted))
             ELSE IF numbered # None
             THEN LineScan(Tail(lines), DictSet(d, cur, ListOrNone(subs)), numbered, <<>>)
             ELSE LineScan(Tail(lines), d, cur, subs)

\* A text of one paragraph whose first non-empty line is a numbered header
\* and no bulleted item.
StartsWithHeader(s) ==
    LET lines == TextLines(s)
    IN  /\ Find(s, NLNL, 1) = 0
        /\ lines # <<>>
        /\ parse_numbered_list_item_from_line(lines[1]) # None
        /\ parse_unordered_list_item_from_line(lines[1]) = None

\* C22: in the line strategy every numbered line starts a section and stores
\* the one open before it, every bulleted line is added to the open section
\* and starts none, and the section open at the end is in the result with
\* the subsections collected for it.
C22_LineStrategyScan ==
    (Called("extract_sections_from_toc") /\ StartsWithHeader(call.args[1].v))
       => LET lines == TextLines(call.args[1].v)
          IN  call.ret = LineScan(Tail(lines), Dict(<<>>, <<>>),
                                  parse_numbered_list_item_from_line(lines[1]), <<>>)

\* A line the scan takes for a bulleted item: it holds "- " and no numbered
\* item.
BulletedLine(line) ==
    /\ parse_numbered_list_item_from_line(line) = None
    /\ parse_unordered_list_item_from_line(line) # None

\* The index of the first bulleted line among the non-empty lines when no
\* numbered line comes before it (no section is open there), else 0.
FirstOrphanBullet(lines) ==
    IF \E i \in 1..Len(lines) :
          /\ BulletedLine(lines[i])
          /\ \A k \in 1..(i - 1) :
                /\ ~BulletedLine(lines[k])
                /\ parse_numbered_list_item_from_line(lines[k]) = None
    THEN CHOOSE i \in 1..Len(lines) :
          /\ BulletedLine(lines[i])
          /\ \A k \in 1..(i - 1) :
                /\ ~BulletedLine(lines[k])
                /\ parse_numbered_list_item_from_line(lines[k]) = None
    ELSE 0

CodeSpans(paragraph) == CountFrom(paragraph, OpenTag(CODE_TAG), 1)

\* C24: wrap_paragraphs_in_par_tag raises for a text in which a paragraph
\* holds more than one code span, wherever the spans are in the paragraph,
\* and returns no output for it.
C24_TwoSpansRaise ==
    (/\ Called("wrap_paragraphs_in_par_tag")
     /\ \E k \in 1..Len(Split(call.args[1].v, NLNL)) :
           CodeSpans(Split(call.args[1].v, NLNL)[k]) > 1)
       => IsRaised(call.ret)

Whitespace == {" ", "\n", "\t"}

\* A text without its line breaks: what is left to compare when the breaks
\* between the elements are of no account.
Unbroken(s) == RemoveChar(s, "\n")

\* A text wrapped in its own paragraph.
Par(s) == OpenTag(PAR_TAG) \o s \o CloseTag(PAR_TAG)

\* A paragraph with exactly one complete code span: one opening tag, and one
\* closing tag after it.
OneSpan(paragraph) ==
    /\ Find(paragraph, NLNL, 1) = 0
    /\ CodeSpans(paragraph) = 1
    /\ CountFrom(paragraph, CloseTag(CODE_TAG), 1) = 1
    /\ Find(paragraph, OpenTag(CODE_TAG), 1) < Find(paragraph, CloseTag(CODE_TAG), 1)

\* The elements such a paragraph is to be rendered as.
SpanElements(paragraph) ==
    LET open == Find(paragraph, OpenTag(CODE_TAG), 1)
        close == Find(paragraph, CloseTag(CODE_TAG), 1)
        before == SubSeq(paragraph, 1, open - 1)
        code == SubSeq(paragraph, open, close + Len(CloseTag(CODE_TAG)) - 1)
        after == SubSeq(paragraph, close + Len(CloseTag(CODE_TAG)), Len(paragraph))
    IN  (IF \E k \in 1..Len(before) : before[k] \notin Whitespace
         THEN Par(before) ELSE <<>>)
           \o code
           \o (IF after # <<>> THEN Par(after) ELSE <<>>)

\* C25: a paragraph with exactly one complete code span is rendered as the
\* text before the span in its own <p> when it is not empty after trimming,
\* the span outside any <p>, and the text after it in its own <p> when it is
\* not empty; a text without an opening code tag has each paragraph wrapped
\* whole in one <p>.
C25_OneSpanElements ==
    Called("wrap_paragraphs_in_par_tag")
       => LET s == call.args[1].v
              paragraphs == Split(s, NLNL)
          IN  /\ OneSpan(s)
                    => /\ IsStr(call.ret)
                       /\ Unbroken(call.ret.v) = Unbroken(SpanElements(s))
              /\ Find(s, OpenTag(CODE_TAG), 1) = 0
                    => call.ret = Str(Join([k \in 1..Len(paragraphs) |->
                                              Par(paragraphs[k])], NLNL))

\* How many headings of a kind a chapter holds.
Headings(content, tag) == CountFrom(content, OpenTag(tag), 1)

\* C26: the chapter of the first subsection (index 0) of a section begins
\* with <h1>section</h1>, the chapter of any other subsection holds no <h1>;
\* every subsection chapter holds its own <h2> heading, once; the chapter of
\* a section without subsections holds one <h1> with the section name and no
\* <h2>.
C26_SectionHeadingOnce ==
    (Called("prepare_chapter_content") /\ IsStr(call.ret))
       => LET section == call.args[2]
              subsection == call.args[3]
              subsection_num == call.args[4]
              content == call.ret.v
              h1 == Header(SECTION_TAG, section.v)
          IN  IF subsection # None
              THEN /\ Headings(content, SUBSECTION_TAG) = 1
                   /\ Find(content, Header(SUBSECTION_TAG, subsection.v), 1) # 0
                   /\ subsection_num = Num(0)
                         => /\ Headings(content, SECTION_TAG) = 1
                            /\ StartsWith(content,
                                  h1 \o NL \o Header(SUBSECTION_TAG, subsection.v))
                   /\ subsection_num # Num(0) => Headings(content, SECTION_TAG) = 0
              ELSE /\ Headings(content, SECTION_TAG) = 1
                   /\ StartsWith(content, h1)
                   /\ Headings(content, SUBSECTION_TAG) = 0

\* The chapter of a second subsection was rendered.
C26_Witness ==
    /\ Called("prepare_chapter_content")
    /\ IsStr(call.ret)
    /\ call.args[4] = Num(1)
    /\ Find(call.ret.v, Header(SUBSECTION_TAG, call.args[3].v), 1) = 1

EndsLoop(r, last_fragment) ==
    \/ IsRaised(r)
    \/ StartsWith(r.v, DoneReply)
    \/ NearDuplicate(last_fragment, r.v)

\* C27: the continuation loop has no cap on its rounds.  A round ends the
\* loop exactly when the answer starts with "Done.", is a near-duplicate of
\* the previous fragment, or the request fails; any other round leaves the
\* loop running and lets no exception out.  In every state of the loop,
\* however many rounds were made, some answer continues it; and with a
\* chatbot that does give an ending answer the loop does end.
C27_LoopEndsOnlyOnAnswer ==
    /\ [][ Running("follow_up") =>
             /\ plan' = Tail(plan) \/ plan' = plan
             /\ plan' = Tail(plan) <=> EndsLoop(reply', last_text)
             /\ escaped' = escaped ]_vars
    /\ [](Running("follow_up") =>
             \E r \in LoopFollowUpReplies : ~EndsLoop(Str(r), last_text))
    /\ (Running("follow_up") ~> ~Running("follow_up"))

\* The loop is still running after an answer that did not end it, and the
\* text holds that answer.
C27_Witness ==
    /\ Running("follow_up")
    /\ reply = Str(<<"y">>)
    /\ last_text = <<"y">>
    /\ text = <<"y">>
====
